---- MODULE Spec2Model ----
(***************************************************************************)
(* Verifiable secret sharing (balena/go-vss): Split, Share.Verify and      *)
(* Combine, over a small prime-order curve y^2 = x^3 - 3x + b (mod p) that *)
(* stands for elliptic.P256().  All integers are mathematical integers     *)
(* (math/big), reduced exactly where the code reduces them.                *)
(***************************************************************************)
EXTENDS Integers, Sequences, FiniteSets

\* ------------------------------------------------------------------ bounds
\* Largest parts / threshold a caller asks for below the 255 ceiling.
MaxPartsB == 3
MaxThresholdB == 2
\* Longest share list handed to Combine on its own.
MaxShares == 3
\* Shares handed to Combine on its own have X in 0..MaxCoord and Y in 0..MaxY.
MaxCoord == 4
MaxY == 1

\* --------------------------------------------------------------- constants
MaxParts == 255
MaxThreshold == 255

\* The curve: y^2 = x^3 - 3x + CurveB over GF(CurveP); its group has the
\* prime order CurveN and is generated by (Gx, Gy).
CurveP == 7
CurveB == 1
CurveN == 5
Gx == 4
Gy == 2

\* Field orders Q a caller passes to Split: the curve's group order and a
\* different prime.
Qs == {3, CurveN}
\* Prime moduli handed to Combine on its own.
Primes == {2, 3, 5}

\* ------------------------------------------------------------------ errors
NoErr == "nil"
ErrThreshold == "threshold < 1"
ErrPartsLess == "parts cannot be less than threshold"
ErrPartsMax == "parts cannot exceed 255"
ErrThresholdMax == "threshold cannot exceed 255"
ErrSecretNil == "secret cannot be nil"
ErrSecretRange == "secret should be between [0, Q)"
ErrRand == "error reading rand"
ErrNoInverse == "no modular inverse found"
ErrCommitsNil == "commits cannot be nil"
ErrCommitsLen == "commits length does not correspond to threshold+1"
ErrNotOnCurve == "share is not on the curve"

\* ------------------------------------------------------------------ slices
\* A Go slice is nil or holds elements.
NilSlice == [isNil |-> TRUE, elems |-> <<>>]
Slice(s) == [isNil |-> FALSE, elems |-> s]

\* ------------------------------------------------------------ big integers
\* big.Int.Bytes(): the bytes of the absolute value; the curve reads them back
\* as an unsigned scalar.
Bytes(k) == IF k < 0 THEN -k ELSE k

\* big.Int.ModInverse(g, n): <<z>> with g*z = 1 (mod n), or <<>> (nil) when g
\* and n are not coprime.
ModInverse(g, n) ==
  LET zs == {z \in 0..(n - 1) : (g * z) % n = 1}
  IN IF zs = {} THEN <<>> ELSE <<CHOOSE z \in zs : TRUE>>

\* ------------------------------------------------------------------- curve
\* Go's affine representation of the point at infinity.
Inf == [X |-> 0, Y |-> 0]

IsOnCurve(x, y) ==
  /\ x \in 0..(CurveP - 1)
  /\ y \in 0..(CurveP - 1)
  /\ (y * y) % CurveP = (x * x * x - 3 * x + CurveB) % CurveP

FieldInv(a) == CHOOSE z \in 1..(CurveP - 1) : (a * z) % CurveP = 1

\* curve.Add on points of the curve (or infinity).
Add(p1, p2) ==
  IF p1 = Inf THEN p2
  ELSE IF p2 = Inf THEN p1
  ELSE IF p1.X = p2.X /\ (p1.Y + p2.Y) % CurveP = 0 THEN Inf
  ELSE LET lam == IF p1 = p2
                  THEN ((3 * p1.X * p1.X - 3) * FieldInv((2 * p1.Y) % CurveP)) % CurveP
                  ELSE ((p2.Y - p1.Y) * FieldInv((p2.X - p1.X) % CurveP)) % CurveP
           x3 == (lam * lam - p1.X - p2.X) % CurveP
           y3 == (lam * (p1.X - x3) - p1.Y) % CurveP
       IN [X |-> x3, Y |-> y3]

\* curve.ScalarMult: double and add over the scalar's bits.
RECURSIVE ScalarMult(_, _)
ScalarMult(p, k) ==
  IF k = 0 THEN Inf
  ELSE LET h == ScalarMult(p, k \div 2)
           d == Add(h, h)
       IN IF k % 2 = 1 THEN Add(d, p) ELSE d

ScalarBaseMult(k) == ScalarMult([X |-> Gx, Y |-> Gy], k)

\* The points of the group.
Points == {ScalarBaseMult(k) : k \in 0..(CurveN - 1)}

\* --------------------------------------------------------------- polynomial
\* commit: every coefficient times the base point.
commit(poly) == [i \in 1..Len(poly) |-> ScalarBaseMult(Bytes(poly[i]))]

\* One Horner step of evaluatePolynomial: y.Mul(y, x); y.Mod(y, M);
\* y.Add(y, poly[i]); y.Mod(y, M).
HornerStep(M, y, x, c) == (((y * x) % M) + c) % M

\* The loop of evaluatePolynomial, at 1-based index i, going down.
RECURSIVE HornerLoop(_, _, _, _, _)
HornerLoop(M, poly, x, i, y) ==
  IF i < 1 THEN y
  ELSE HornerLoop(M, poly, x, i - 1, HornerStep(M, y, x, poly[i]))

\* evaluatePolynomial: starts from the leading coefficient as it is.
evaluatePolynomial(M, poly, x) ==
  HornerLoop(M, poly, x, Len(poly) - 1, poly[Len(poly)])

\* ------------------------------------------------------------------ Combine
\* LagrangeTerm with the numerator taken from the wrong share: xi / (xj - xi).
LagrangeTermNumXi(M, xi, xj) ==
  LET denom == (xj - xi) % M
      denomInv == ModInverse(denom, M)
  IN IF denomInv = <<>> THEN <<>> ELSE <<(xi * denomInv[1]) % M>>

\* xj / (xj - xi) mod M: <<term>>, or <<>> when the denominator has no inverse.
LagrangeTerm(M, xi, xj) ==
  LET denom == (xj - xi) % M
      denomInv == ModInverse(denom, M)
  IN IF denomInv = <<>> THEN <<>> ELSE <<(xj * denomInv[1]) % M>>

\* The inner loop of Combine for share i, at index j: <<basis>>, or <<>> as soon
\* as a term has no inverse.
RECURSIVE BasisLoop(_, _, _, _, _)
BasisLoop(M, shares_, i, j, basis) ==
  IF j > Len(shares_) THEN <<basis>>
  ELSE IF i = j THEN BasisLoop(M, shares_, i, j + 1, basis)
  ELSE LET term == LagrangeTerm(M, shares_[i].X, shares_[j].X)
       IN IF term = <<>> THEN <<>>
          ELSE BasisLoop(M, shares_, i, j + 1, (basis * term[1]) % M)

\* CombineLoop without secret.Mod(secret, Q) after the accumulation.
RECURSIVE CombineLoopNoMod(_, _, _, _)
CombineLoopNoMod(M, shares_, i, acc) ==
  IF i > Len(shares_) THEN [val |-> <<acc>>, err |-> NoErr]
  ELSE LET basis == BasisLoop(M, shares_, i, 1, 1)
       IN IF basis = <<>> THEN [val |-> <<>>, err |-> ErrNoInverse]
          ELSE CombineLoopNoMod(M, shares_, i + 1,
                                acc + ((shares_[i].Y * basis[1]) % M))

\* The outer loop of Combine, at index i with the secret accumulated so far.
RECURSIVE CombineLoop(_, _, _, _)
CombineLoop(M, shares_, i, acc) ==
  IF i > Len(shares_) THEN [val |-> <<acc>>, err |-> NoErr]
  ELSE LET basis == BasisLoop(M, shares_, i, 1, 1)
       IN IF basis = <<>> THEN [val |-> <<>>, err |-> ErrNoInverse]
          ELSE CombineLoop(M, shares_, i + 1,
                           (acc + ((shares_[i].Y * basis[1]) % M)) % M)

\* Combine(Q, shares): [val |-> <<secret>>, err |-> NoErr] or
\* [val |-> <<>>, err |-> ErrNoInverse].
Combine(M, shares_) == CombineLoop(M, shares_, 1, 0)

\* ------------------------------------------------------------------- Verify
\* The loop of Share.Verify at k (0-based, as in the code), with tk = X^(k-1)
\* and acc the point accumulated so far.
RECURSIVE VerifyLoop(_, _, _, _, _, _)
VerifyLoop(x, threshold_, cs, k, tk, acc) ==
  IF k >= threshold_ THEN acc
  ELSE LET tk2 == (tk * x) % CurveN
           cktk == ScalarMult(cs[k + 1], Bytes(tk2))
       IN VerifyLoop(x, threshold_, cs, k + 1, tk2, Add(acc, cktk))

\* Where the accumulated point is written: acc := commits[0] is a pointer to the
\* first commitment, so acc.X, acc.Y = ... writes the caller's commits[0].
StoreAcc(cs, acc) == [cs EXCEPT ![1] = acc]

\* The length Verify requires of the commitment list.
RequiredCommits(threshold_) == threshold_ + 1

\* share.Verify(curve, threshold, commits): the result, the error, and the
\* commitment list as the call leaves it.
Verify(share, threshold_, commits_) ==
  IF commits_.isNil
  THEN [ok |-> FALSE, err |-> ErrCommitsNil, commits |-> commits_]
  ELSE IF Len(commits_.elems) # RequiredCommits(threshold_)
  THEN [ok |-> FALSE, err |-> ErrCommitsLen, commits |-> commits_]
  ELSE IF ~IsOnCurve(share.X, share.Y)
  THEN [ok |-> FALSE, err |-> ErrNotOnCurve, commits |-> commits_]
  ELSE LET cs == commits_.elems
           acc == VerifyLoop(share.X, threshold_, cs, 1, 1, cs[1])
           fiG == ScalarBaseMult(Bytes(share.Y))
       IN [ok |-> fiG = acc, err |-> NoErr,
           commits |-> Slice(StoreAcc(cs, acc))]

\* -------------------------------------------------------------------- state
VARIABLES
  pc,            \* where Split stands: idle, secretPoly, randomPoly, coords, done
  Q,             \* Split's / Combine's field order
  secret,        \* Split's secret: <<>> (nil) or <<value>>
  parts,
  threshold,
  withBlinding,
  secretPoly,    \* Split's local secretPoly, as far as it is built
  randomPoly,    \* Split's local randomPoly (<<>> while nil)
  xs,            \* uniqueCoords' result, as far as it is built
  shares,        \* the share slice the caller holds
  commits,       \* the commitment slice the caller holds
  err,           \* Split's error
  ret            \* what the last call returned

vars == <<pc, Q, secret, parts, threshold, withBlinding, secretPoly, randomPoly,
          xs, shares, commits, err, ret>>

NoRet == [op |-> "none", ok |-> FALSE, val |-> <<>>, err |-> NoErr]

\* ------------------------------------------------------------------- inputs
PartsInputs == (0..MaxPartsB) \cup {MaxParts + 1}
ThresholdInputs == (0..MaxThresholdB) \cup {MaxThreshold + 1}
SecretInputs(q) == {<<>>} \cup {<<v>> : v \in (-1)..q}

\* -------------------------------------------------------------------- Split
\* Split's validation, in the order of the code: the first error, or NoErr.
ValidationError(q, s, p, t) ==
  IF t < 1 THEN ErrThreshold
  ELSE IF p < t THEN ErrPartsLess
  ELSE IF p > MaxParts THEN ErrPartsMax
  ELSE IF t > MaxThreshold THEN ErrThresholdMax
  ELSE IF s = <<>> THEN ErrSecretNil
  ELSE IF s[1] >= q THEN ErrSecretRange
  ELSE NoErr

\* A failure path that hands back the commitments made so far.
FailCommitsPartial == Slice(commit(secretPoly))

\* What Split hands back on a failure path: return nil, nil, err.
FailShares == NilSlice
FailCommits == NilSlice

\* Split returns an error; its locals are gone.
SplitFails(e) ==
  /\ pc' = "done"
  /\ shares' = FailShares
  /\ commits' = FailCommits
  /\ err' = e
  /\ ret' = [op |-> "Split", ok |-> FALSE, val |-> <<>>, err |-> e]
  /\ secretPoly' = <<>>
  /\ randomPoly' = <<>>
  /\ xs' = <<>>

\* After the secret polynomial is complete: the blinding polynomial starts with
\* the constant 0 when blinding is on, and the next entropy read is for its
\* first random coefficient, or for the first x-coordinate.
AfterSecretPoly(t, b) ==
  /\ randomPoly' = IF b THEN <<0>> ELSE <<>>
  /\ pc' = IF b /\ t > 1 THEN "randomPoly" ELSE "coords"

\* Split is called: validation, then up to the first entropy read.
SplitCall(q, s, p, t, b) ==
  /\ pc = "idle"
  /\ Q' = q
  /\ secret' = s
  /\ parts' = p
  /\ threshold' = t
  /\ withBlinding' = b
  /\ LET e == ValidationError(q, s, p, t)
     IN IF e # NoErr
        THEN SplitFails(e)
        ELSE /\ secretPoly' = <<s[1]>>
             /\ xs' = <<>>
             /\ IF t > 1
                THEN pc' = "secretPoly" /\ randomPoly' = <<>>
                ELSE AfterSecretPoly(t, b)
             /\ UNCHANGED <<shares, commits, err, ret>>

\* A duplicate test that takes every candidate for a duplicate once one
\* coordinate is accepted.
IsDuplicateAny(result, x) == Len(result) > 0

\* IsDuplicate comparing the candidate with the last accepted coordinate only.
IsDuplicateLastOnly(result, x) == Len(result) > 0 /\ result[Len(result)] = x

\* uniqueCoords' test of a candidate against the coordinates accepted so far.
IsDuplicate(result, x) == \E j \in 1..Len(result) : result[j] = x

\* The y of the share at x: the secret polynomial modulo the curve's order,
\* plus, with blinding, the blinding polynomial modulo Q, reduced modulo Q.
ShareY(q, sp, rp, b, x) ==
  LET y == evaluatePolynomial(CurveN, sp, x)
  IN IF b THEN (y + evaluatePolynomial(q, rp, x)) % q ELSE y

MakeShares(q, sp, rp, b, coords) ==
  [i \in 1..Len(coords) |-> [X |-> coords[i], Y |-> ShareY(q, sp, rp, b, coords[i])]]

\* append(secretCommits, randomCommits...)
MakeCommits(sp, rp, b) == IF b THEN commit(sp) \o commit(rp) ELSE commit(sp)

\* cryptorand.Int fails at a read of the phase ph (the secret polynomial, the
\* blinding polynomial or the coordinates): nonZeroInt wraps the error and Split
\* returns it.
RandFails(ph) ==
  /\ pc = ph
  /\ SplitFails(ErrRand)
  /\ UNCHANGED <<Q, secret, parts, threshold, withBlinding>>

\* nonZeroInt discards a zero: the loop reads again, nothing else changes.
DrawZero ==
  /\ pc \in {"secretPoly", "randomPoly", "coords"}
  /\ UNCHANGED vars

\* randomPolynomial(rand, curve.Params().N, secret, threshold-1): one coefficient.
DrawSecretCoef(v) ==
  /\ pc = "secretPoly"
  /\ v \in 1..(CurveN - 1)
  /\ secretPoly' = Append(secretPoly, v)
  /\ IF Len(secretPoly') = threshold
     THEN AfterSecretPoly(threshold, withBlinding)
     ELSE UNCHANGED <<pc, randomPoly>>
  /\ UNCHANGED <<Q, secret, parts, threshold, withBlinding, xs, shares, commits,
                 err, ret>>

\* randomPolynomial(rand, Q, 0, threshold-1): one coefficient.
DrawRandomCoef(v) ==
  /\ pc = "randomPoly"
  /\ v \in 1..(Q - 1)
  /\ randomPoly' = Append(randomPoly, v)
  /\ pc' = IF Len(randomPoly') = threshold THEN "coords" ELSE pc
  /\ UNCHANGED <<Q, secret, parts, threshold, withBlinding, secretPoly, xs,
                 shares, commits, err, ret>>

\* uniqueCoords: a nonzero candidate equal to an accepted coordinate is dropped.
DrawDuplicateCoord(v) ==
  /\ pc = "coords"
  /\ v \in 1..(Q - 1)
  /\ IsDuplicate(xs, v)
  /\ UNCHANGED vars

\* uniqueCoords accepts a coordinate; after the last one Split evaluates the
\* shares and returns them with the commitments.
DrawCoord(v) ==
  /\ pc = "coords"
  /\ v \in 1..(Q - 1)
  /\ ~IsDuplicate(xs, v)
  /\ xs' = Append(xs, v)
  /\ IF Len(xs') = parts
     THEN /\ pc' = "done"
          /\ shares' = Slice(MakeShares(Q, secretPoly, randomPoly, withBlinding, xs'))
          /\ commits' = Slice(MakeCommits(secretPoly, randomPoly, withBlinding))
          /\ err' = NoErr
          /\ ret' = [op |-> "Split", ok |-> TRUE, val |-> <<>>, err |-> NoErr]
     ELSE UNCHANGED <<pc, shares, commits, err, ret>>
  /\ UNCHANGED <<Q, secret, parts, threshold, withBlinding, secretPoly, randomPoly>>

\* ------------------------------------------------------------------ callers
\* The caller verifies the share sh against the commitments it holds.
VerifyCall(op, sh) ==
  LET r == Verify(sh, threshold, commits)
  IN /\ commits' = r.commits
     /\ ret' = [op |-> op, ok |-> r.ok, val |-> <<>>, err |-> r.err]
     /\ UNCHANGED <<pc, Q, secret, parts, threshold, withBlinding, secretPoly,
                    randomPoly, xs, shares, err>>

\* share.Verify(curve, threshold, commits) on the i-th share held.
VerifyShare(i) ==
  /\ pc = "done"
  /\ err = NoErr
  /\ i \in 1..Len(shares.elems)
  /\ VerifyCall("Verify", shares.elems[i])

\* The i-th share with its Y replaced by a different value of [0, N).
VerifyTampered(i, y) ==
  /\ pc = "done"
  /\ err = NoErr
  /\ i \in 1..Len(shares.elems)
  /\ y \in 0..(CurveN - 1)
  /\ y # shares.elems[i].Y
  /\ VerifyCall("VerifyTampered", [X |-> shares.elems[i].X, Y |-> y])

\* The shares with index in S, in the order held.
RECURSIVE SubShares(_, _, _)
SubShares(sh, S, i) ==
  IF i > Len(sh) THEN <<>>
  ELSE (IF i \in S THEN <<sh[i]>> ELSE <<>>) \o SubShares(sh, S, i + 1)

\* Combine(Q, the shares with index in S).
CombineShares(S) ==
  /\ pc = "done"
  /\ err = NoErr
  /\ S \subseteq 1..Len(shares.elems)
  /\ LET r == Combine(Q, SubShares(shares.elems, S, 1))
     IN ret' = [op |-> "Combine", ok |-> FALSE, val |-> r.val, err |-> r.err]
  /\ UNCHANGED <<pc, Q, secret, parts, threshold, withBlinding, secretPoly,
                 randomPoly, xs, shares, commits, err>>

\* Split has returned shares and commitments.
SplitOK == pc = "done" /\ err = NoErr

\* The index sets of exactly threshold of the shares held.
ThresholdSubsets ==
  {S \in SUBSET (1..Len(shares.elems)) : Cardinality(S) = threshold}

\* ------------------------------------------------------------ specifications
Init ==
  /\ pc = "idle"
  /\ Q = CurveN
  /\ secret = <<>>
  /\ parts = 0
  /\ threshold = 0
  /\ withBlinding = FALSE
  /\ secretPoly = <<>>
  /\ randomPoly = <<>>
  /\ xs = <<>>
  /\ shares = NilSlice
  /\ commits = NilSlice
  /\ err = NoErr
  /\ ret = NoRet

\* Split, from its call to its return.
SplitNext ==
  \/ /\ pc = "idle"
     /\ \E q \in Qs, p \in PartsInputs, t \in ThresholdInputs, b \in BOOLEAN :
          \E s \in SecretInputs(q) : SplitCall(q, s, p, t, b)
  \/ RandFails("secretPoly")
  \/ RandFails("randomPoly")
  \/ RandFails("coords")
  \/ DrawZero
  \/ pc = "secretPoly" /\ \E v \in 1..(CurveN - 1) : DrawSecretCoef(v)
  \/ pc = "randomPoly" /\ \E v \in 1..(Q - 1) : DrawRandomCoef(v)
  \/ pc = "coords" /\ \E v \in 1..(Q - 1) : DrawDuplicateCoord(v)
  \/ pc = "coords" /\ \E v \in 1..(Q - 1) : DrawCoord(v)

\* The dealer splits; threshold of the shares are combined again.
Next ==
  \/ SplitNext
  \/ SplitOK /\ \E S \in ThresholdSubsets : CombineShares(S)

Spec == Init /\ [][Next]_vars

\* The dealer splits; the participants verify their shares, as received or with
\* a changed Y, against the commitments of the split.
NextSplitVerify ==
  \/ SplitNext
  \/ SplitOK /\ \E i \in 1..parts : VerifyShare(i)
  \/ SplitOK /\ \E i \in 1..parts, y \in 0..(CurveN - 1) : VerifyTampered(i, y)

SpecSplitVerify == Init /\ [][NextSplitVerify]_vars

\* Verify on its own: any share, any threshold, any list of curve points.
ShareInputs == [X : 1..(CurveN - 1), Y : 0..(CurveN - 1)]
CommitLists == UNION {[1..n -> Points] : n \in 0..(MaxThresholdB + 1)}

InitVerify ==
  /\ pc = "done"
  /\ Q = CurveN
  /\ secret = <<>>
  /\ parts = 1
  /\ threshold \in 0..MaxThresholdB
  /\ withBlinding = FALSE
  /\ secretPoly = <<>>
  /\ randomPoly = <<>>
  /\ xs = <<>>
  /\ shares \in {Slice(<<sh>>) : sh \in ShareInputs}
  /\ commits \in {NilSlice} \cup {Slice(cs) : cs \in CommitLists}
  /\ err = NoErr
  /\ ret = NoRet

NextVerify == VerifyShare(1)

SpecVerify == InitVerify /\ [][NextVerify]_vars

\* Combine on its own: any prime modulus, any list of shares.
CombineInputs == [X : 0..MaxCoord, Y : 0..MaxY]
ShareLists == UNION {[1..n -> CombineInputs] : n \in 0..MaxShares}

InitCombine ==
  /\ pc = "done"
  /\ Q \in Primes
  /\ secret = <<>>
  /\ parts = 0
  /\ threshold = 0
  /\ withBlinding = FALSE
  /\ secretPoly = <<>>
  /\ randomPoly = <<>>
  /\ xs = <<>>
  /\ shares \in {Slice(sh) : sh \in ShareLists}
  /\ commits = NilSlice
  /\ err = NoErr
  /\ ret = NoRet

NextCombine == CombineShares(1..Len(shares.elems))

SpecCombine == InitCombine /\ [][NextCombine]_vars

\* Split with an entropy source that never fails and is fair: every value is
\* delivered again and again, so a draw that Split would accept, and that stays
\* acceptable, is eventually delivered and accepted.
NextFair ==
  \/ /\ pc = "idle"
     /\ \E q \in Qs, p \in PartsInputs, t \in ThresholdInputs, b \in BOOLEAN :
          \E s \in SecretInputs(q) : SplitCall(q, s, p, t, b)
  \/ DrawZero
  \/ pc = "secretPoly" /\ \E v \in 1..(CurveN - 1) : DrawSecretCoef(v)
  \/ pc = "randomPoly" /\ \E v \in 1..(Q - 1) : DrawRandomCoef(v)
  \/ pc = "coords" /\ \E v \in 1..(Q - 1) : DrawDuplicateCoord(v)
  \/ pc = "coords" /\ \E v \in 1..(Q - 1) : DrawCoord(v)

\* While Split waits at a read, nothing but an accepted draw changes the state,
\* so the values that are acceptable stay acceptable until one is accepted: a
\* source that delivers every value again and again delivers one of them.
\* uniqueCoords stores a candidate that no accepted coordinate equals. Of the
\* steps of NextFair these are the steps of DrawCoord, and the step is possible
\* exactly when one of DrawCoord is.
AcceptCoord ==
  /\ pc = "coords"
  /\ \E v \in 1..(Q - 1) : ~IsDuplicate(xs, v) /\ xs' = Append(xs, v)

FairEntropy ==
  /\ WF_vars(\E v \in 1..(CurveN - 1) : DrawSecretCoef(v))
  /\ WF_vars(\E v \in 1..(Q - 1) : DrawRandomCoef(v))
  /\ WF_xs(AcceptCoord)

SpecFair == Init /\ [][NextFair]_vars /\ FairEntropy

\* =================================================================== claims
CombineOf(S) == Combine(Q, SubShares(shares.elems, S, 1))

\* The value of a polynomial at x over the integers: the sum of poly[i] * x^(i-1).
RECURSIVE PolyValue(_, _, _)
PolyValue(poly, x, i) ==
  IF i > Len(poly) THEN 0 ELSE poly[i] + x * PolyValue(poly, x, i + 1)

\* C1. Round trip: after a successful Split with Q the curve's group order and
\* the secret in [0, Q), with or without blinding, Combine(Q, S) returns exactly
\* the secret, with no error, for every choice S of threshold of the shares.
C1_RoundTrip ==
  (SplitOK /\ Q = CurveN /\ secret[1] \in 0..(Q - 1)) =>
    /\ \A S \in ThresholdSubsets :
         CombineOf(S) = [val |-> secret, err |-> NoErr]
    /\ ret.op = "Combine" => (ret.val = secret /\ ret.err = NoErr)

\* Combine has returned the secret of a blinded 2-of-3 split.
C1_Witness ==
  /\ SplitOK
  /\ Q = CurveN
  /\ withBlinding
  /\ threshold = 2
  /\ parts = 3
  /\ secret = <<3>>
  /\ ret.op = "Combine"
  /\ ret.val = <<3>>
  /\ CombineOf({2, 3}) = [val |-> <<3>>, err |-> NoErr]

\* C6. Share independence: a successful Split returns exactly parts shares whose
\* X values lie in [1, Q) and are pairwise distinct, whatever the entropy source
\* delivered; the coordinates accepted so far are distinct at every moment.
C6_ShareIndependence ==
  /\ \A i, j \in 1..Len(xs) : i # j => xs[i] # xs[j]
  /\ SplitOK =>
       /\ ~shares.isNil
       /\ Len(shares.elems) = parts
       /\ \A i \in 1..parts : shares.elems[i].X \in 1..(Q - 1)
       /\ \A i, j \in 1..parts : i # j => shares.elems[i].X # shares.elems[j].X

\* Split has returned three shares.
C6_Witness ==
  /\ SplitOK
  /\ secret[1] \in 0..(Q - 1)
  /\ parts = 3
  /\ Len(shares.elems) = 3
  /\ shares.elems[1].X # shares.elems[3].X

\* C7. Split input validation: Split returns the error of the first condition
\* that holds among threshold < 1, parts < threshold, parts > 255,
\* threshold > 255, secret absent, secret outside [0, Q) (negative or >= Q), and
\* draws no entropy.
C7_InvalidInput ==
  \/ threshold < 1
  \/ parts < threshold
  \/ parts > MaxParts
  \/ threshold > MaxThreshold
  \/ secret = <<>>
  \/ secret[1] < 0
  \/ secret[1] >= Q

C7_ClaimedError ==
  IF threshold < 1 THEN ErrThreshold
  ELSE IF parts < threshold THEN ErrPartsLess
  ELSE IF parts > MaxParts THEN ErrPartsMax
  ELSE IF threshold > MaxThreshold THEN ErrThresholdMax
  ELSE IF secret = <<>> THEN ErrSecretNil
  ELSE ErrSecretRange

\* C7, as stated: once Split is called with an input that meets one of the
\* conditions, it has returned that condition's error, with nothing else, and
\* never stands at an entropy read.
C7_Validation ==
  (pc # "idle" /\ C7_InvalidInput) =>
    /\ pc = "done"
    /\ err = C7_ClaimedError
    /\ shares = NilSlice
    /\ commits = NilSlice

\* C9. No partial application: when Split returns an error it returns no shares
\* and no commitments; when it returns no error it returns exactly parts shares
\* and threshold commitments (2*threshold with blinding), those of the secret
\* polynomial first, then those of the blinding polynomial.
C9_NoPartialApplication ==
  pc = "done" =>
    IF err # NoErr
    THEN shares = NilSlice /\ commits = NilSlice
    ELSE /\ ~shares.isNil
         /\ Len(shares.elems) = parts
         /\ ~commits.isNil
         /\ Len(commits.elems) = IF withBlinding THEN 2 * threshold ELSE threshold
         /\ \A k \in 1..threshold :
              commits.elems[k] = ScalarBaseMult(Bytes(secretPoly[k]))
         /\ withBlinding =>
              \A k \in 1..threshold :
                commits.elems[threshold + k] = ScalarBaseMult(Bytes(randomPoly[k]))

\* The entropy source failed in a blinded Split of threshold 2, which returned
\* the error alone.
C9_Witness ==
  /\ pc = "done"
  /\ err = ErrRand
  /\ Q = CurveN
  /\ secret = <<3>>
  /\ withBlinding
  /\ threshold = 2
  /\ shares = NilSlice
  /\ commits = NilSlice

\* C10. Q is the polynomial field order of Split: for every Q accepted and every
\* secret in [0, Q), every share's Y is the value of the secret polynomial (plus
\* the blinding polynomial with blinding) at X reduced modulo Q, lies in [0, Q),
\* and Combine(Q, S) over any threshold shares returns the secret.
C10_FieldOrderQ ==
  (SplitOK /\ secret[1] \in 0..(Q - 1)) =>
    /\ \A i \in 1..Len(shares.elems) :
         LET sh == shares.elems[i]
             blind == IF withBlinding THEN PolyValue(randomPoly, sh.X, 1) ELSE 0
         IN /\ sh.Y = (PolyValue(secretPoly, sh.X, 1) + blind) % Q
            /\ sh.Y \in 0..(Q - 1)
    /\ \A S \in ThresholdSubsets :
         CombineOf(S) = [val |-> secret, err |-> NoErr]

\* C2. Verification soundness: after a successful Split, Verify on any of the
\* returned shares, with the same threshold and the commitments of that Split,
\* returns true and no error, on every call.  (Stated for Q the curve's group
\* order and a secret of [0, Q).)
C2_VerifySound ==
  (ret.op = "Verify" /\ Q = CurveN /\ secret[1] \in 0..(Q - 1)) =>
    (ret.ok /\ ret.err = NoErr)

\* C4. Tamper detection: Verify on a share of Split whose Y was replaced by a
\* different value of [0, N) returns false and no error.  (Stated for Q the
\* curve's group order and a secret of [0, Q).)
C4_TamperDetected ==
  (ret.op = "VerifyTampered" /\ Q = CurveN /\ secret[1] \in 0..(Q - 1)) =>
    (~ret.ok /\ ret.err = NoErr)

\* C3. Verify never mutates the commitment set: every commitment point is the
\* same after a Verify call as before it.
C3_CommitsUnchanged == [][commits' = commits]_vars

\* C5. Commitment shape: Verify returns the commitment-length error if and only
\* if the commitment list is not nil and its length differs from threshold
\* (threshold >= 1).
C5_CommitShape ==
  (ret.op = "Verify" /\ threshold >= 1) =>
    (ret.err = ErrCommitsLen <=>
       (~commits.isNil /\ Len(commits.elems) # threshold))

\* C8. Combine error and range: for a prime M, Combine fails with the
\* no-modular-inverse error if and only if two of the shares supplied have X
\* values congruent modulo M; otherwise (also for no share or one share) it
\* returns, without error, a value of [0, M).
C8_CongruentXs ==
  \E i, j \in 1..Len(shares.elems) :
    i # j /\ (shares.elems[i].X - shares.elems[j].X) % Q = 0

\* C8, as stated: the error exactly when two X values are congruent modulo M,
\* otherwise a value of [0, M).
C8_CombineErrorAndRange ==
  ret.op = "Combine" =>
    IF C8_CongruentXs
    THEN ret.err = ErrNoInverse /\ ret.val = <<>>
    ELSE ret.err = NoErr /\ Len(ret.val) = 1 /\ ret.val[1] \in 0..(Q - 1)

\* Combine has refused three shares of which two have different X values that
\* are congruent modulo M.
C8_Witness ==
  /\ ret.op = "Combine"
  /\ ret.err = ErrNoInverse
  /\ Len(shares.elems) = 3
  /\ \A i, j \in 1..3 : i # j => shares.elems[i].X # shares.elems[j].X
  /\ C8_CongruentXs

\* Split stands at an entropy read.
C11_Sampling == pc \in {"secretPoly", "randomPoly", "coords"}

\* What Split has built so far: coefficients and coordinates.
C11_Built == Len(secretPoly) + Len(randomPoly) + Len(xs)

\* C11. Termination of sampling: with an entropy source that never fails and is
\* fair, a Split call that passed validation eventually returns whenever
\* parts <= Q-1; every step of it that changes anything adds a coefficient or a
\* coordinate (the only steps that repeat are the rejections, which change
\* nothing); and when parts > Q-1 it never returns.
C11_Termination ==
  /\ (C11_Sampling /\ parts <= Q - 1) ~> (pc = "done" /\ err = NoErr)
  /\ [][C11_Sampling => C11_Built' > C11_Built]_vars
  /\ []((pc # "idle" /\ ValidationError(Q, secret, parts, threshold) = NoErr
         /\ parts > Q - 1) => pc # "done")

\* Split has returned with as many parts as the field has nonzero elements:
\* every nonzero element of the field is one of the coordinates.
C11_Witness ==
  /\ pc = "done" /\ err = NoErr
  /\ Q = 3 /\ parts = Q - 1 /\ threshold = 2 /\ withBlinding
  /\ \A v \in 1..(Q - 1) : IsDuplicate(xs, v)

====
